---- MODULE Spec2Model ----
(***************************************************************************)
(* Model of gi/docstring.py: the doc string generator registry (one        *)
(* module-level slot with set / get / generate) and the default signature  *)
(* formatter built on the introspection descriptors of gi._gi.             *)
(*                                                                         *)
(* Python strings are TLA+ strings; lists are sequences; the descriptors   *)
(* owned by gi._gi are records whose fields are what the accessor of the   *)
(* same name returns.                                                      *)
(***************************************************************************)
EXTENDS Integers, Sequences, FiniteSets, TLC

VARIABLES generate_doc_string_func, requests, info, ret, last_set

vars == <<generate_doc_string_func, requests, info, ret, last_set>>

-----------------------------------------------------------------------------
(* Bounds *)

\* longest argument list of a callable descriptor
MaxArgs == 2
\* most signature requests issued and not yet dispatched
MaxPending == 2

-----------------------------------------------------------------------------
(* gi._gi: Direction, TypeTag and the descriptors *)

Direction == {"IN", "OUT", "INOUT"}

MappedTags == {"BOOLEAN", "INT8", "UINT8", "INT16", "UINT16", "INT32", "UINT32",
               "INT64", "UINT64", "FLOAT", "DOUBLE", "GLIST", "GSLIST", "ARRAY",
               "GHASH", "UTF8", "FILENAME", "UNICHAR"}

\* the tags the table maps to None
NoneTags == {"INTERFACE", "GTYPE", "ERROR", "VOID"}

\* UNKNOWN stands for any tag value the table has no key for
TypeTag == MappedTags \cup NoneTags \cup {"UNKNOWN"}

\* gi_type.get_tag_as_string()
TagAsString(tag) ==
    CASE tag = "VOID" -> "void"
      [] tag = "BOOLEAN" -> "gboolean"
      [] tag = "INT8" -> "gint8"
      [] tag = "UINT8" -> "guint8"
      [] tag = "INT16" -> "gint16"
      [] tag = "UINT16" -> "guint16"
      [] tag = "INT32" -> "gint32"
      [] tag = "UINT32" -> "guint32"
      [] tag = "INT64" -> "gint64"
      [] tag = "UINT64" -> "guint64"
      [] tag = "FLOAT" -> "gfloat"
      [] tag = "DOUBLE" -> "gdouble"
      [] tag = "GTYPE" -> "gtype"
      [] tag = "UTF8" -> "utf8"
      [] tag = "FILENAME" -> "filename"
      [] tag = "ARRAY" -> "array"
      [] tag = "INTERFACE" -> "interface"
      [] tag = "GLIST" -> "glist"
      [] tag = "GSLIST" -> "gslist"
      [] tag = "GHASH" -> "ghash"
      [] tag = "ERROR" -> "error"
      [] tag = "UNICHAR" -> "gunichar"
      [] OTHER -> "unknown"

\* the value get_destroy / get_closure / get_array_length return for "none"
Sentinel == 0 - 1

\* gi_type.get_interface() of a type that is no interface
NoIface == [namespace |-> "", name |-> ""]

-----------------------------------------------------------------------------
(* Python helpers *)

\* sep.join(strs)
RECURSIVE Join(_, _)
Join(strs, sep) ==
    IF strs = <<>> THEN ""
    ELSE IF Len(strs) = 1 THEN strs[1]
    ELSE strs[1] \o sep \o Join(Tail(strs), sep)

-----------------------------------------------------------------------------
(* split_function_info_args *)

\* split_loop with elif for the second test: an INOUT argument is in the in
\* list alone
RECURSIVE split_loop_elif(_, _, _, _)
split_loop_elif(args, k, in_args, out_args) ==
    IF k > Len(args) THEN [in_args |-> in_args, out_args |-> out_args]
    ELSE LET arg == args[k]
             direction == arg.direction
         IN  split_loop_elif(args, k + 1,
                             IF direction \in {"IN", "INOUT"}
                             THEN Append(in_args, arg) ELSE in_args,
                             IF direction = "OUT"
                             THEN Append(out_args, arg) ELSE out_args)

\* lines 69-74: the loop over info.get_arguments(), k the next argument
RECURSIVE split_loop(_, _, _, _)
split_loop(args, k, in_args, out_args) ==
    IF k > Len(args) THEN [in_args |-> in_args, out_args |-> out_args]
    ELSE LET arg == args[k]
             direction == arg.direction
         IN  split_loop(args, k + 1,
                        IF direction \in {"IN", "INOUT"}
                        THEN Append(in_args, arg) ELSE in_args,
                        IF direction \in {"OUT", "INOUT"}
                        THEN Append(out_args, arg) ELSE out_args)

split_function_info_args(i) == split_loop(i.args, 1, <<>>, <<>>)

-----------------------------------------------------------------------------
(* _type_tag_to_py_type and _get_pytype_hint *)

\* _type_tag_to_py_type.get(type_tag, None); a Python type is its __name__
type_tag_to_py_type(type_tag) ==
    CASE type_tag = "BOOLEAN" -> "bool"
      [] type_tag \in {"INT8", "UINT8", "INT16", "UINT16", "INT32", "UINT32",
                       "INT64", "UINT64"} -> "int"
      [] type_tag \in {"FLOAT", "DOUBLE"} -> "float"
      [] type_tag \in {"GLIST", "GSLIST", "ARRAY"} -> "list"
      [] type_tag = "GHASH" -> "dict"
      [] type_tag \in {"UTF8", "FILENAME", "UNICHAR"} -> "str"
      [] OTHER -> "None"

\* get_pytype_hint without the test of the interface's name
get_pytype_hint_unnamed(gi_type) ==
    LET type_tag == gi_type.tag
        py_type  == type_tag_to_py_type(type_tag)
    IN  IF py_type # "None" THEN py_type
        ELSE IF type_tag = "INTERFACE"
             THEN gi_type.iface.namespace \o "." \o gi_type.iface.name
             ELSE TagAsString(type_tag)

get_pytype_hint(gi_type) ==
    LET type_tag == gi_type.tag
        py_type  == type_tag_to_py_type(type_tag)
    IN  IF py_type # "None" THEN py_type
        ELSE IF type_tag = "INTERFACE"
             THEN IF gi_type.iface.name = ""
                  THEN TagAsString(type_tag)
                  ELSE gi_type.iface.namespace \o "." \o gi_type.iface.name
             ELSE TagAsString(type_tag)

-----------------------------------------------------------------------------
(* _generate_callable_info_function_signature *)

\* seed_in_args_strs with the constructor tested before the method
seed_constructor_first(i) ==
    IF i.kind = "VFuncInfo" THEN <<"cls">>
    ELSE IF i.kind = "FunctionInfo"
         THEN IF i.is_constructor THEN <<"cls">>
              ELSE IF i.is_method THEN <<"self">>
              ELSE <<>>
         ELSE <<>>

\* lines 124-131: the implicit leading parameter
seed_in_args_strs(i) ==
    IF i.kind = "VFuncInfo" THEN <<"self">>
    ELSE IF i.kind = "FunctionInfo"
         THEN IF i.is_method THEN <<"self">>
              ELSE IF i.is_constructor THEN <<"cls">>
              ELSE <<>>
         ELSE <<>>

\* lines 136-141: both sets are built from the in list alone
ignore_indices(in_args) ==
    {in_args[k].destroy : k \in 1..Len(in_args)}
        \cup {in_args[k].type.array_length : k \in 1..Len(in_args)}

user_data_indices(in_args) ==
    {in_args[k].closure : k \in 1..Len(in_args)}

\* in_arg_str with is_optional tested before may_be_null
in_arg_str_optional_first(arg, i, user_data) ==
    LET hint == get_pytype_hint(arg.type)
        typed == IF hint # "void" THEN arg.name \o ":" \o hint ELSE arg.name
    IN  IF arg.is_optional THEN typed \o "=<optional>"
        ELSE IF arg.may_be_null \/ i \in user_data THEN typed \o "=None"
        ELSE typed

\* lines 146-154: one in argument, i its 0-based position in the in list
in_arg_str(arg, i, user_data) ==
    LET hint == get_pytype_hint(arg.type)
        typed == IF hint # "void" THEN arg.name \o ":" \o hint ELSE arg.name
    IN  IF arg.may_be_null \/ i \in user_data THEN typed \o "=None"
        ELSE IF arg.is_optional THEN typed \o "=<optional>"
        ELSE typed

\* is_ignored with the sentinel taken for the last position, as a Python
\* index of -1 is
is_ignored_negative_index(i, n, ignore) ==
    \/ i \in ignore
    \/ i - n \in ignore

\* lines 143-145: enumerate(in_args) skips the positions in ignore_indices;
\* i is the position, n the length of the in list
is_ignored(i, n, ignore) == i \in ignore

RECURSIVE in_args_loop(_, _, _, _)
in_args_loop(in_args, k, ignore, user_data) ==
    IF k > Len(in_args) THEN <<>>
    ELSE (IF is_ignored(k - 1, Len(in_args), ignore) THEN <<>>
          ELSE <<in_arg_str(in_args[k], k - 1, user_data)>>)
         \o in_args_loop(in_args, k + 1, ignore, user_data)

in_args_strs(i) ==
    LET in_args == split_function_info_args(i).in_args
    IN  seed_in_args_strs(i)
            \o in_args_loop(in_args, 1, ignore_indices(in_args),
                            user_data_indices(in_args))

\* out_arg_str with the void hint dropped as it is for an in argument
out_arg_str_no_void(arg) ==
    LET hint == get_pytype_hint(arg.type)
    IN  IF hint # "void" THEN arg.name \o ":" \o hint ELSE arg.name

\* lines 159-160
out_arg_str(arg) == arg.name \o ":" \o get_pytype_hint(arg.type)

out_args_strs(i) ==
    LET out_args == split_function_info_args(i).out_args
    IN  [k \in 1..Len(out_args) |-> out_arg_str(out_args[k])]

generate_callable_info_function_signature(i) ==
    LET out_args == split_function_info_args(i).out_args
        in_args_str == Join(in_args_strs(i), ", ")
    IN  IF out_args # <<>>
        THEN i.name \o "(" \o in_args_str \o ") -> " \o Join(out_args_strs(i), ", ")
        ELSE i.name \o "(" \o in_args_str \o ")"

-----------------------------------------------------------------------------
(* The registry: _generate_doc_string_func and its three functions *)

\* the values a caller may pass to set_doc_string_generator:
\*   "default"  _generate_callable_info_function_signature
\*   "custom"   a caller's function that returns a string
\*   "raising"  a caller's function that raises
\*   "None"     a value that is not callable
Funcs == {"default", "custom", "raising", "None"}

\* func(d) as Python evaluates the call expression: the outcome of the call,
\* and who raised when it raises
Call(func, d) ==
    CASE func = "default" ->
             [kind |-> "return", by |-> "generator",
              value |-> generate_callable_info_function_signature(d)]
      [] func = "custom" ->
             [kind |-> "return", by |-> "generator",
              value |-> "doc of " \o d.name]
      [] func = "raising" ->
             [kind |-> "raise", by |-> "generator", value |-> "ValueError"]
      [] OTHER ->
             [kind |-> "raise", by |-> "call", value |-> "TypeError"]

\* line 43: the slot after set_doc_string_generator(func)
slot_after_set(old, func) == func

\* slot_read with the generator kept from when the request was made
slot_read_issued(now, issued) == issued

\* line 56: the function generate_doc_string calls; now is the slot when the
\* call runs, issued the slot when the request was made
slot_read(now, issued) == now

\* passed_on with every error turned into one of the registry's own
passed_on_wrapped(outcome) ==
    IF outcome.kind = "raise"
    THEN [kind |-> "raise", by |-> "call", value |-> "RuntimeError"]
    ELSE outcome

\* line 56: what generate_doc_string hands back from the call
passed_on(outcome) == outcome

set_doc_string_generator(func) ==
    /\ generate_doc_string_func' = slot_after_set(generate_doc_string_func, func)
    /\ last_set' = func
    /\ ret' = [op |-> "set", last_set |-> func]
    /\ UNCHANGED <<requests, info>>

get_doc_string_generator ==
    /\ ret' = [op |-> "get", value |-> generate_doc_string_func,
               last_set |-> last_set]
    /\ UNCHANGED <<generate_doc_string_func, requests, info, last_set>>

\* generate_doc_string(d), for a request made when the slot held issued
generate_doc_string(d, issued) ==
    /\ ret' = [op |-> "generate", info |-> d, last_set |-> last_set,
               issued |-> issued,
               outcome |-> passed_on(Call(slot_read(generate_doc_string_func,
                                                    issued), d))]
    /\ UNCHANGED <<generate_doc_string_func, info, last_set>>

\* a caller decides to ask for the signature of the descriptor it holds; the
\* call of generate_doc_string comes later
Issue ==
    /\ Len(requests) < MaxPending
    /\ requests' = Append(requests,
                          [info |-> info, issued |-> generate_doc_string_func])
    /\ UNCHANGED <<generate_doc_string_func, info, ret, last_set>>

Dispatch(k) ==
    /\ k \in 1..Len(requests)
    /\ generate_doc_string(requests[k].info, requests[k].issued)
    /\ requests' = SubSeq(requests, 1, k - 1)
                       \o SubSeq(requests, k + 1, Len(requests))

\* the caller calls generate_doc_string at once
GenerateNow ==
    /\ generate_doc_string(info, generate_doc_string_func)
    /\ UNCHANGED requests

Split ==
    /\ ret' = [op |-> "split", value |-> split_function_info_args(info)]
    /\ UNCHANGED <<generate_doc_string_func, requests, info, last_set>>

Hint(k) ==
    /\ k \in 1..Len(info.args)
    /\ ret' = [op |-> "hint", type |-> info.args[k].type,
               value |-> get_pytype_hint(info.args[k].type)]
    /\ UNCHANGED <<generate_doc_string_func, requests, info, last_set>>

-----------------------------------------------------------------------------
(* Descriptors *)

ArgName(k) == "x" \o ToString(k)

PlainType == [tag |-> "INT32", array_length |-> Sentinel, iface |-> NoIface]
VoidType == [tag |-> "VOID", array_length |-> Sentinel, iface |-> NoIface]
WidgetType == [tag |-> "INTERFACE", array_length |-> Sentinel,
               iface |-> [namespace |-> "Gtk", name |-> "Widget"]]

\* every type descriptor without an array length: get_interface() has a
\* namespace and a possibly empty name exactly when the tag is INTERFACE
TypeDescs ==
    {[tag |-> t, array_length |-> Sentinel, iface |-> NoIface] :
        t \in TypeTag \ {"INTERFACE"}}
    \cup {[tag |-> "INTERFACE", array_length |-> Sentinel,
           iface |-> [namespace |-> "Gtk", name |-> nm]] : nm \in {"", "Widget"}}

\* may_be_null, is_optional and the type of one argument
Profiles(types) ==
    [may_be_null : BOOLEAN, is_optional : BOOLEAN, type : types]

PlainProfile == [may_be_null |-> FALSE, is_optional |-> FALSE, type |-> PlainType]

\* the companion fields of the arguments 1..n
Fields(n) == (1..n) \X {"destroy", "closure", "array_length"}

\* the index values a companion field refers to: in range and past the end
Targets == 0..MaxArgs

\* link: a function from some companion fields to their index values
LinkOf(link, k, f) == IF <<k, f>> \in DOMAIN link THEN link[<<k, f>>] ELSE Sentinel

\* array lengths belong to array types
WithLength(type, len) ==
    IF len = Sentinel THEN type
    ELSE [tag |-> "ARRAY", array_length |-> len, iface |-> NoIface]

MkInfo(kind, n, dirs, prof, link) ==
    [kind |-> kind[1], is_method |-> kind[2], is_constructor |-> kind[3],
     name |-> "foo",
     args |-> [k \in 1..n |->
                 [name |-> ArgName(k - 1),
                  direction |-> dirs[k],
                  may_be_null |-> prof[k].may_be_null,
                  is_optional |-> prof[k].is_optional,
                  destroy |-> LinkOf(link, k, "destroy"),
                  closure |-> LinkOf(link, k, "closure"),
                  type |-> WithLength(prof[k].type,
                                      LinkOf(link, k, "array_length"))]]]

\* the callable kinds: the class, is_method(), is_constructor(); a function
\* of a typelib is a method or a constructor, never both
PlainFunction == <<"FunctionInfo", FALSE, FALSE>>
Kinds == {<<"VFuncInfo", FALSE, FALSE>>, <<"CallbackInfo", FALSE, FALSE>>,
          PlainFunction, <<"FunctionInfo", TRUE, FALSE>>,
          <<"FunctionInfo", FALSE, TRUE>>}

\* the sets of at most `most` companion fields of the arguments 1..n
FieldSets(n, most) == {S \in SUBSET Fields(n) : Cardinality(S) <= most}

\* the types an argument of the profile family takes
FocusTypes ==
    {PlainType, VoidType, WidgetType,
     [tag |-> "UNKNOWN", array_length |-> Sentinel, iface |-> NoIface]}

PlainOrFocus(n, focus, p) == [k \in 1..n |-> IF k = focus THEN p ELSE PlainProfile]

\* plain functions, any directions, no, one or two companion references
\* (a callback with its user data and its destroy notify, two arrays with
\* their lengths, two references to one position), each to any position
LinkFamily ==
    \E n \in 0..MaxArgs : \E L \in FieldSets(n, 2) :
    \E link \in [L -> Targets] : \E dirs \in [1..n -> Direction] :
        info = MkInfo(PlainFunction, n, dirs, [k \in 1..n |-> PlainProfile], link)

\* plain functions, any directions, one argument of any profile, at most one
\* companion reference
ProfileFamily ==
    \E n \in 1..MaxArgs : \E L \in FieldSets(n, 1) :
    \E link \in [L -> Targets] : \E dirs \in [1..n -> Direction] :
    \E focus \in 1..n : \E p \in Profiles(FocusTypes) :
        info = MkInfo(PlainFunction, n, dirs, PlainOrFocus(n, focus, p), link)

\* every kind of callable, any directions, plain arguments
KindFamily ==
    \E n \in 0..MaxArgs : \E kind \in Kinds : \E dirs \in [1..n -> Direction] :
        info = MkInfo(kind, n, dirs, [k \in 1..n |-> PlainProfile], <<>>)

\* one argument of every type
TypeFamily ==
    \E dir \in Direction : \E p \in Profiles(TypeDescs) :
        info = MkInfo(PlainFunction, 1, <<dir>>, <<p>>, <<>>)

Arg(name, direction, may_be_null, closure, type) ==
    [name |-> name, direction |-> direction, may_be_null |-> may_be_null,
     is_optional |-> FALSE, destroy |-> Sentinel, closure |-> closure,
     type |-> type]

Function(kind, name, args) ==
    [kind |-> kind[1], is_method |-> kind[2], is_constructor |-> kind[3],
     name |-> name, args |-> args]

Utf8Type == [tag |-> "UTF8", array_length |-> Sentinel, iface |-> NoIface]
BooleanType == [tag |-> "BOOLEAN", array_length |-> Sentinel, iface |-> NoIface]

\* the callables of the five scenarios
PlainFoo == Function(PlainFunction, "foo", <<Arg("x", "IN", FALSE, Sentinel, PlainType)>>)
MethodY ==
    Function(<<"FunctionInfo", TRUE, FALSE>>, "name",
             <<Arg("y", "IN", TRUE, Sentinel, Utf8Type)>>)
WithUserData ==
    Function(PlainFunction, "name",
             <<Arg("data", "IN", FALSE, 1, PlainType),
               Arg("user_data", "IN", FALSE, Sentinel, VoidType)>>)
OutResult ==
    Function(PlainFunction, "name",
             <<Arg("result", "OUT", FALSE, Sentinel, BooleanType)>>)
WidgetArg ==
    Function(PlainFunction, "name",
             <<Arg("widget", "INOUT", FALSE, Sentinel, WidgetType)>>)

Scenarios == {PlainFoo, MethodY, WithUserData, OutResult, WidgetArg}

-----------------------------------------------------------------------------
(* Specifications *)

\* the state after the module is loaded: line 31, then line 166
Loaded ==
    /\ generate_doc_string_func = slot_after_set("None", "default")
    /\ last_set = "default"
    /\ requests = <<>>
    /\ ret = [op |-> "load"]

\* the registry, with the callables of the scenarios
Init ==
    /\ Loaded
    /\ info \in Scenarios

Next ==
    \/ \E func \in Funcs : set_doc_string_generator(func)
    \/ get_doc_string_generator
    \/ Issue
    \/ \E k \in 1..MaxPending : Dispatch(k)
    \/ GenerateNow
    \/ Split
    \/ \E k \in 1..MaxArgs : Hint(k)

Spec == Init /\ [][Next]_vars

\* the default formatter and its helpers, over the families of callables
InitFmt ==
    /\ Loaded
    /\ \/ LinkFamily
       \/ ProfileFamily
       \/ KindFamily
       \/ TypeFamily

NextFmt ==
    \/ GenerateNow
    \/ Split

SpecFmt == InitFmt /\ [][NextFmt]_vars

\* type-hint resolution, over every type descriptor
InitHint ==
    /\ Loaded
    /\ TypeFamily

NextHint == \E k \in 1..MaxArgs : Hint(k)

SpecHint == InitHint /\ [][NextHint]_vars

-----------------------------------------------------------------------------
(* Reading a signature back *)

\* s[a-1:b] of Python, for 1-based a
Sub(s, a, b) ==
    LET lo == IF a < 1 THEN 1 ELSE a
        hi == IF b > Len(s) THEN Len(s) ELSE b
    IN  IF lo > hi THEN "" ELSE SubSeq(s, lo, hi)

Contains(s, sub) ==
    \E i \in 1..(Len(s) - Len(sub) + 1) : Sub(s, i, i + Len(sub) - 1) = sub

\* the first position of sub in s from position i on, 0 when there is none
RECURSIVE FirstFrom(_, _, _)
FirstFrom(s, sub, i) ==
    IF i + Len(sub) - 1 > Len(s) THEN 0
    ELSE IF SubSeq(s, i, i + Len(sub) - 1) = sub THEN i
    ELSE FirstFrom(s, sub, i + 1)

FirstAt(s, sub) == IF sub = "" THEN 1 ELSE FirstFrom(s, sub, 1)

RECURSIVE SplitOn(_, _)
SplitOn(s, sep) ==
    LET i == FirstAt(s, sep)
    IN  IF i = 0 THEN <<s>>
        ELSE <<Sub(s, 1, i - 1)>> \o SplitOn(Sub(s, i + Len(sep), Len(s)), sep)

Items(s) == IF s = "" THEN <<>> ELSE SplitOn(s, ", ")

\* name(params) -> returns
Parse(sig) ==
    LET open  == FirstAt(sig, "(")
        close == FirstAt(sig, ")")
        rest  == Sub(sig, close + 1, Len(sig))
    IN  [name    |-> Sub(sig, 1, open - 1),
         params  |-> Items(Sub(sig, open + 1, close - 1)),
         arrow   |-> FirstAt(sig, " -> ") # 0,
         returns |-> IF Sub(rest, 1, 4) = " -> "
                     THEN Items(Sub(rest, 5, Len(rest))) ELSE <<>>,
         tail    |-> rest]

\* name[:hint][=default]
ParseEntry(e) ==
    LET eq    == FirstAt(e, "=")
        head  == IF eq = 0 THEN e ELSE Sub(e, 1, eq - 1)
        colon == FirstAt(head, ":")
    IN  [name    |-> IF colon = 0 THEN head ELSE Sub(head, 1, colon - 1),
         typed   |-> colon # 0,
         hint    |-> IF colon = 0 THEN "" ELSE Sub(head, colon + 1, Len(head)),
         default |-> IF eq = 0 THEN "" ELSE Sub(e, eq, Len(e))]

\* the entries of the positional listing that are the argument called name
EntriesOf(params, name) ==
    {k \in 1..Len(params) : ParseEntry(params[k]).name = name}

Listed(params, name) == EntriesOf(params, name) # {}

ParseChecks ==
    /\ Parse("name(self, y:str=None) -> r:bool, s:void")
         = [name |-> "name", params |-> <<"self", "y:str=None">>, arrow |-> TRUE,
            returns |-> <<"r:bool", "s:void">>, tail |-> " -> r:bool, s:void"]
    /\ Parse("f()") = [name |-> "f", params |-> <<>>, arrow |-> FALSE,
                       returns |-> <<>>, tail |-> ""]
    /\ ParseEntry("y:Gtk.Widget=<optional>")
         = [name |-> "y", typed |-> TRUE, hint |-> "Gtk.Widget",
            default |-> "=<optional>"]
    /\ ParseEntry("user_data=None")
         = [name |-> "user_data", typed |-> FALSE, hint |-> "", default |-> "=None"]
    /\ ParseEntry("self") = [name |-> "self", typed |-> FALSE, hint |-> "",
                             default |-> ""]

\* fetch(x0: OUT, x1: IN callback with closure 2 and destroy 3, x2: IN user
\* data, x3: IN destroy notify): the indices count all four arguments
Fetch(first) ==
    Function(PlainFunction, "fetch",
             <<Arg("x0", first, FALSE, Sentinel, PlainType),
               [Arg("x1", "IN", FALSE, 2, WidgetType) EXCEPT !.destroy = 3],
               Arg("x2", "IN", FALSE, Sentinel, VoidType),
               Arg("x3", "IN", FALSE, Sentinel, WidgetType)>>)

\* what the formatter makes of fetch: with x0 an IN argument the companions
\* are found; with x0 an OUT argument every position of the in list is one
\* less than the index: the destroy notify is listed, and it is the one that
\* gets the default of the user data
FetchStrings ==
    /\ generate_callable_info_function_signature(Fetch("IN"))
         = "fetch(x0:int, x1:Gtk.Widget, x2=None)"
    /\ generate_callable_info_function_signature(Fetch("OUT"))
         = "fetch(x1:Gtk.Widget, x2, x3:Gtk.Widget=None) -> x0:int"

ScenarioStrings ==
    /\ generate_callable_info_function_signature(PlainFoo) = "foo(x:int)"
    /\ generate_callable_info_function_signature(MethodY) = "name(self, y:str=None)"
    /\ generate_callable_info_function_signature(WithUserData)
           = "name(data:int, user_data=None)"
    /\ generate_callable_info_function_signature(OutResult) = "name() -> result:bool"
    /\ generate_callable_info_function_signature(WidgetArg)
           = "name(widget:Gtk.Widget) -> widget:Gtk.Widget"

-----------------------------------------------------------------------------
(* Vocabulary of the properties *)

InDir(a) == a.direction \in {"IN", "INOUT"}
OutDir(a) == a.direction \in {"OUT", "INOUT"}

\* the type hint of a type descriptor, as the specification tabulates it
HintOf(t) ==
    CASE t.tag = "BOOLEAN" -> "bool"
      [] t.tag \in {"INT8", "UINT8", "INT16", "UINT16", "INT32", "UINT32",
                    "INT64", "UINT64"} -> "int"
      [] t.tag \in {"FLOAT", "DOUBLE"} -> "float"
      [] t.tag \in {"GLIST", "GSLIST", "ARRAY"} -> "list"
      [] t.tag = "GHASH" -> "dict"
      [] t.tag \in {"UTF8", "FILENAME", "UNICHAR"} -> "str"
      [] t.tag = "INTERFACE" /\ t.iface.name # "" ->
             t.iface.namespace \o "." \o t.iface.name
      [] OTHER -> TagAsString(t.tag)

\* generate_doc_string has returned what the default formatter made of ret.info
Formatted ==
    /\ ret.op = "generate"
    /\ ret.last_set = "default"
    /\ ret.outcome.kind = "return"

\* what the destroy and array-length indices of the list ins refer to
HiddenBy(ins) ==
    {ins[k].destroy : k \in 1..Len(ins)}
        \cup {ins[k].type.array_length : k \in 1..Len(ins)}

\* what the closure indices of the list ins refer to
UserDataBy(ins) == {ins[k].closure : k \in 1..Len(ins)}

\* the text of the entry of the positional listing for the argument a
EntryText(params, a) == params[CHOOSE k \in EntriesOf(params, a.name) : TRUE]

-----------------------------------------------------------------------------
(* The registry *)

Callable(func) == func \in {"default", "custom", "raising"}

\* C1: the slot always holds the function of the most recent
\* set_doc_string_generator call (the default formatter after load);
\* get_doc_string_generator returns it, generate_doc_string returns the result
\* of applying it, read when the call runs and not when the request was
\* made, and neither get nor generate changes the slot.
C1_MostRecentGenerator ==
    /\ [](/\ generate_doc_string_func = last_set
          /\ ret.op = "load" => last_set = "default"
          /\ ret.op = "set" => generate_doc_string_func = ret.last_set
          /\ ret.op = "get" => ret.value = ret.last_set
          /\ ret.op = "generate" => ret.outcome = Call(ret.last_set, ret.info))
    /\ [][ret'.op \in {"get", "generate"}
             => generate_doc_string_func' = generate_doc_string_func]_vars

\* a request made under one generator and dispatched after a set of another
C1_Witness ==
    /\ ret.op = "generate"
    /\ ret.issued # ret.last_set
    /\ ret.issued = "default"
    /\ ret.last_set = "custom"
    /\ ret.outcome.value = "doc of name"

\* C10 as stated: generate_doc_string returns the active generator's result
\* or fails with the error the active generator raised, whatever values were
\* set, and leaves the slot as it was.
C10_OnlyGeneratorErrors ==
    /\ generate_doc_string_func = last_set
    /\ ret.op = "generate" =>
          /\ ret.outcome.by = "generator"
          /\ ret.outcome = Call(ret.last_set, ret.info)

\* C10 amended: when the slot holds a callable, generate_doc_string returns
\* its result verbatim or fails with the error it raised; when the slot holds
\* a value that cannot be called, generate_doc_string fails with the
\* TypeError of the call itself; the slot is left as it was either way.
C10_NoAddedError ==
    /\ generate_doc_string_func = last_set
    /\ ret.op = "generate" /\ Callable(ret.last_set) =>
          /\ ret.outcome.by = "generator"
          /\ ret.last_set = "raising" =>
                ret.outcome.kind = "raise" /\ ret.outcome.value = "ValueError"
          /\ ret.last_set = "custom" =>
                ret.outcome.kind = "return" /\ ret.outcome.value = "doc of " \o ret.info.name
          /\ ret.last_set = "default" =>
                ret.outcome.kind = "return"
                    /\ Parse(ret.outcome.value).name = ret.info.name
    /\ ret.op = "generate" /\ ~Callable(ret.last_set) =>
          ret.outcome = [kind |-> "raise", by |-> "call", value |-> "TypeError"]

\* the generator raised and generate_doc_string passed its error on
C10_Witness ==
    /\ ret.op = "generate"
    /\ ret.last_set = "raising"
    /\ ret.outcome.kind = "raise"
    /\ generate_doc_string_func = "raising"

-----------------------------------------------------------------------------
(* split_function_info_args *)

\* C4: the in list is the subsequence of the IN and INOUT arguments, the out
\* list the subsequence of the OUT and INOUT arguments, each in the original
\* order: an INOUT argument is in both, an IN argument only in the in list,
\* an OUT argument only in the out list, none dropped or repeated.
C4_Partition ==
    ret.op = "split" =>
        LET args == info.args
            ins  == ret.value.in_args
            outs == ret.value.out_args
            Names(q) == {q[k].name : k \in 1..Len(q)}
        IN  /\ ins = SelectSeq(args, InDir)
            /\ outs = SelectSeq(args, OutDir)
            /\ Cardinality(Names(ins)) = Len(ins)
            /\ Cardinality(Names(outs)) = Len(outs)
            /\ \A k \in 1..Len(args) :
                  /\ args[k].name \in Names(ins) <=> args[k].direction # "OUT"
                  /\ args[k].name \in Names(outs) <=> args[k].direction # "IN"

\* an INOUT argument after an OUT argument: second of the out list, first
\* of the in list
C4_Witness ==
    /\ ret.op = "split"
    /\ Len(info.args) = 2
    /\ info.args[1].direction = "OUT"
    /\ info.args[2].direction = "INOUT"
    /\ ret.value.in_args = <<info.args[2]>>
    /\ ret.value.out_args = <<info.args[1], info.args[2]>>

-----------------------------------------------------------------------------
(* Type hints *)

\* C9: type-hint resolution yields, for every type descriptor, the mapped
\* name for a mapped tag, Namespace.Name for an interface with a name, and
\* the tag's own string for every other tag and for an unnamed interface.
C9_HintTable ==
    ret.op = "hint" =>
        /\ ret.value = HintOf(ret.type)
        /\ ret.type.tag \in {"GTYPE", "ERROR", "VOID", "UNKNOWN"} =>
              ret.value = TagAsString(ret.type.tag)
        /\ ret.type.tag = "INTERFACE" =>
              ret.value = IF ret.type.iface.name = "" THEN "interface"
                          ELSE "Gtk." \o ret.type.iface.name

C9_Witness ==
    /\ ret.op = "hint"
    /\ ret.type.tag = "INTERFACE"
    /\ ret.type.iface.name = ""
    /\ ret.value = "interface"

-----------------------------------------------------------------------------
(* The default formatter *)

\* C2 as stated: an argument whose index is the destroy or array-length index
\* of another argument is absent from the positional listing, wherever the
\* two stand.
C2_CompanionHidden ==
    Formatted =>
        LET args == ret.info.args
            sig  == Parse(ret.outcome.value)
        IN  \A j, k \in 1..Len(args) :
              /\ k # j
              /\ \/ args[k].destroy = j - 1
                 \/ args[k].type.array_length = j - 1
              => ~Listed(sig.params, args[j].name)

\* what the code does for C2 and C3: the indices of the in arguments alone
\* are matched against positions in the in list
InListPositions ==
    Formatted =>
        LET sig    == Parse(ret.outcome.value)
            ins    == SelectSeq(ret.info.args, InDir)
            hidden == HiddenBy(ins)
            user   == UserDataBy(ins)
        IN  \A p \in 1..Len(ins) :
              /\ Listed(sig.params, ins[p].name) <=> (p - 1) \notin hidden
              /\ (p - 1) \in user \ hidden =>
                    ParseEntry(EntryText(sig.params, ins[p])).default = "=None"

\* C3 as stated: an argument whose index is the closure index of another
\* argument is listed with the default =None, nullable or not.
C3_UserDataDefault ==
    Formatted =>
        LET args == ret.info.args
            sig  == Parse(ret.outcome.value)
        IN  \A j, k \in 1..Len(args) :
              /\ k # j
              /\ args[k].closure = j - 1
              /\ InDir(args[j])
              /\ Listed(sig.params, args[j].name)
              => ParseEntry(EntryText(sig.params, args[j])).default = "=None"

\* tags whose hint is the tag's own string
RawTag(t) ==
    \/ t.tag \in {"GTYPE", "ERROR", "VOID", "UNKNOWN"}
    \/ t.tag = "INTERFACE" /\ t.iface.name = ""

\* C5: the default formatter returns a signature whatever the companion
\* indices and type tags are: an in argument is left out, or given =None
\* without being nullable, only when a companion index of an in argument is
\* its position in the in list, so sentinel and out-of-range indices do
\* nothing; a tag without a mapped type shows as the tag's own string.
C5_Permissive ==
    ret.op = "generate" /\ ret.last_set = "default" =>
        /\ ret.outcome.kind = "return"
        /\ LET sig    == Parse(ret.outcome.value)
               ins    == SelectSeq(ret.info.args, InDir)
               outs   == SelectSeq(ret.info.args, OutDir)
               hidden == HiddenBy(ins)
               user   == UserDataBy(ins)
           IN  /\ sig.name = ret.info.name
               /\ \A p \in 1..Len(ins) :
                     IF Listed(sig.params, ins[p].name)
                     THEN LET e == ParseEntry(EntryText(sig.params, ins[p]))
                          IN  /\ (p - 1) \notin user /\ ~ins[p].may_be_null
                                    => e.default # "=None"
                              /\ RawTag(ins[p].type) /\ ins[p].type.tag # "VOID"
                                    => e.hint = TagAsString(ins[p].type.tag)
                     ELSE (p - 1) \in hidden
               /\ Len(sig.returns) = Len(outs)
               /\ \A q \in 1..Len(outs) :
                     RawTag(outs[q].type) =>
                         sig.returns[q]
                           = outs[q].name \o ":" \o TagAsString(outs[q].type.tag)

\* a destroy index past the end of the in list, and an unrecognized tag
C5_Witness ==
    /\ Formatted
    /\ LET sig == Parse(ret.outcome.value)
           ins == SelectSeq(ret.info.args, InDir)
       IN  /\ Len(ins) = 2
           /\ ins[1].destroy >= Len(ins)
           /\ ins[2].closure = Sentinel
           /\ ins[2].type.tag = "UNKNOWN"
           /\ sig.params = <<ins[1].name \o ":int", ins[2].name \o ":unknown">>

\* C6: an in argument that is not left out is listed once as its name, then
\* ":" and the type hint unless the hint is "void", then one default: =None
\* when it may be null or its position in the in list is a closure index,
\* else =<optional> when it is optional, else nothing.
C6_EntryFormat ==
    Formatted =>
        LET sig    == Parse(ret.outcome.value)
            ins    == SelectSeq(ret.info.args, InDir)
            hidden == HiddenBy(ins)
            user   == UserDataBy(ins)
        IN  \A p \in 1..Len(ins) :
              (p - 1) \notin hidden =>
                  LET a    == ins[p]
                      hint == HintOf(a.type)
                      text == EntryText(sig.params, a)
                      e    == ParseEntry(text)
                  IN  /\ Cardinality(EntriesOf(sig.params, a.name)) = 1
                      /\ e.typed <=> hint # "void"
                      /\ e.typed => e.hint = hint
                      /\ e.default = IF a.may_be_null \/ (p - 1) \in user
                                     THEN "=None"
                                     ELSE IF a.is_optional THEN "=<optional>"
                                     ELSE ""
                      /\ ~(Contains(text, "=None") /\ Contains(text, "=<optional>"))

\* an optional argument that is user data and void: =None wins, no hint
C6_Witness ==
    /\ Formatted
    /\ LET sig == Parse(ret.outcome.value)
           ins == SelectSeq(ret.info.args, InDir)
       IN  \E p \in 1..Len(ins) :
             /\ (p - 1) \notin HiddenBy(ins)
             /\ ins[p].is_optional
             /\ ~ins[p].may_be_null
             /\ (p - 1) \in UserDataBy(ins)
             /\ ins[p].type.tag = "VOID"
             /\ sig.params[p] = ins[p].name \o "=None"

\* C7: the positional listing starts with self for a virtual function and
\* for a method, with cls for a constructor, and with neither otherwise; at
\* most one implicit parameter is listed and it comes first.
C7_ImplicitParameter ==
    Formatted =>
        LET d == ret.info
            sig == Parse(ret.outcome.value)
            ins == SelectSeq(d.args, InDir)
            hidden == HiddenBy(ins)
            implicit == {k \in 1..Len(sig.params) : sig.params[k] \in {"self", "cls"}}
            first == IF sig.params = <<>> THEN "" ELSE sig.params[1]
        IN  /\ implicit \subseteq {1}
            /\ d.kind = "VFuncInfo" => first = "self"
            /\ d.kind = "FunctionInfo" /\ d.is_method => first = "self"
            /\ d.kind = "FunctionInfo" /\ d.is_constructor /\ ~d.is_method
                  => first = "cls"
            /\ /\ d.kind # "VFuncInfo"
               /\ ~(d.kind = "FunctionInfo" /\ (d.is_method \/ d.is_constructor))
               => implicit = {}
            /\ Len(sig.params)
                 = Cardinality(implicit)
                     + Cardinality({p \in 1..Len(ins) : (p - 1) \notin hidden})

C7_Witness ==
    /\ Formatted
    /\ ret.info.kind = "FunctionInfo"
    /\ ret.info.is_constructor
    /\ Len(ret.info.args) = 2
    /\ ret.info.args[1].direction = "OUT"
    /\ Parse(ret.outcome.value).params = <<"cls", "x1:int">>

\* C8: the signature has the " -> " part exactly when the callable has an OUT
\* or INOUT argument; the part lists every such argument in order as
\* name:hint, the hint shown even when it is void, and no companion index
\* leaves an out argument out.
C8_ReturnPart ==
    Formatted =>
        LET sig  == Parse(ret.outcome.value)
            outs == SelectSeq(ret.info.args, OutDir)
        IN  /\ sig.arrow <=> outs # <<>>
            /\ outs = <<>> => sig.tail = ""
            /\ Len(sig.returns) = Len(outs)
            /\ \A q \in 1..Len(outs) :
                  sig.returns[q] = outs[q].name \o ":" \o HintOf(outs[q].type)

\* an INOUT argument that is a destroy companion, and a void OUT argument
C8_Witness ==
    /\ Formatted
    /\ LET sig  == Parse(ret.outcome.value)
           ins  == SelectSeq(ret.info.args, InDir)
           outs == SelectSeq(ret.info.args, OutDir)
       IN  /\ Len(outs) = 2
           /\ outs[1].direction = "INOUT"
           /\ Len(ins) = 2
           /\ ins[1].name = outs[1].name
           /\ 0 \in HiddenBy(ins)
           /\ outs[2].type.tag = "VOID"
           /\ sig.params = <<"x1">>
           /\ sig.returns = <<"x0:int", "x1:void">>

====
